---------------------------- MODULE Spec2Model ----------------------------
(***************************************************************************)
(* did-key.js: the key-type registry and dispatch layer                    *)
(* (packages/did-key.js/src/index.ts).                                     *)
(*                                                                         *)
(* JavaScript values are represented as follows.                           *)
(*   - a string is a TLA+ string;                                          *)
(*   - an optional property is <<>> when absent (undefined) and <<v>>      *)
(*     when present;                                                       *)
(*   - an object whose key order matters (a JWK that is serialised with    *)
(*     JSON.stringify) is a sequence of <<name, value>> pairs;             *)
(*   - any other object is a record; a property is absent when its name    *)
(*     is not in the record's DOMAIN;                                      *)
(*   - a handler module is named by a string ("ed25519", ..., "web").      *)
(***************************************************************************)
EXTENDS Integers, Sequences, FiniteSets, TLC

VARIABLES
    pc,         \* position of the current request: "idle", "returned", or a stage of convert
    req,        \* the current request: operation and arguments
    calls,      \* every call made into a handler module or key-pair class, in order
    out,        \* what the current request returned (resolved with) or threw (rejected with)
    oldRepresentation,  \* convert: the application/did+json resolution, <<>> until resolved
    newRepresentation,  \* convert: the caller-requested resolution, <<>> until resolved
    tasks,      \* convert: state of the async callback of each input key
    generated,  \* generate2: what the handler's generate settled with, <<>> until then
    twin        \* generate2: the same request made with another seed, the
                \* handler deciding alike; <<>> otherwise

vars ==
    <<pc, req, calls, out, oldRepresentation, newRepresentation, tasks,
      generated, twin>>

---------------------------------------------------------------------------
(* Bounds of the model.                                                    *)

\* longest key list given to convert
MaxKeys == 2
\* number of distinct outcomes of a handler's own (unseeded) randomness
MaxEntropy == 2

---------------------------------------------------------------------------
(* Strings and codecs.                                                     *)

Min(a, b) == IF a < b THEN a ELSE b

CharAt(s, i) == SubSeq(s, i, i)

\* String.prototype.substring(0, n): the first n characters, or the whole
\* string when it is shorter.
substring0(s, n) == SubSeq(s, 1, Min(n, Len(s)))

RECURSIVE LastIndexOf(_, _, _)
LastIndexOf(s, c, i) ==
    IF i = 0 THEN 0
    ELSE IF CharAt(s, i) = c THEN i
    ELSE LastIndexOf(s, c, i - 1)

\* s.split(':').pop(): what follows the last colon, the whole string if none.
splitPop(s) == SubSeq(s, LastIndexOf(s, ":", Len(s)) + 1, Len(s))

\* The printable ASCII characters, by code: 32 to 95, and 97 to 126.
AsciiFrom32 ==
    " !\"#$%&'()*+,-./0123456789:;<=>?@ABCDEFGHIJKLMNOPQRSTUVWXYZ[\\]^_"
AsciiFrom97 == "abcdefghijklmnopqrstuvwxyz{|}~"

\* The UTF-8 byte of each printable ASCII character.
CharCodes ==
    [c \in {CharAt(AsciiFrom32, i) : i \in 1..Len(AsciiFrom32)}
            \cup {CharAt(AsciiFrom97, i) : i \in 1..Len(AsciiFrom97)} |->
        IF \E i \in 1..Len(AsciiFrom32) : CharAt(AsciiFrom32, i) = c
        THEN 31 + (CHOOSE i \in 1..Len(AsciiFrom32) : CharAt(AsciiFrom32, i) = c)
        ELSE 96 + (CHOOSE i \in 1..Len(AsciiFrom97) : CharAt(AsciiFrom97, i) = c)]

CharCode(c) == CharCodes[c]

RECURSIVE Utf8(_)
Utf8(s) == IF s = "" THEN <<>> ELSE <<CharCode(CharAt(s, 1))>> \o Utf8(SubSeq(s, 2, Len(s)))

HexDigits == "0123456789abcdef"
HexDigitsUpper == "0123456789ABCDEF"

\* The value of a hexadecimal digit, -1 for any other character.
HexVal(c) ==
    IF \E i \in 1..16 : CharAt(HexDigits, i) = c
    THEN (CHOOSE i \in 1..16 : CharAt(HexDigits, i) = c) - 1
    ELSE IF \E i \in 1..16 : CharAt(HexDigitsUpper, i) = c
    THEN (CHOOSE i \in 1..16 : CharAt(HexDigitsUpper, i) = c) - 1
    ELSE -1

\* Buffer.from(s, 'hex'): one byte per pair of hex digits, stopping at the
\* first pair that is not hexadecimal; a trailing single digit is dropped.
RECURSIVE BufferFromHex(_)
BufferFromHex(s) ==
    IF Len(s) < 2 THEN <<>>
    ELSE LET hi == HexVal(CharAt(s, 1))
             lo == HexVal(CharAt(s, 2))
         IN  IF hi < 0 \/ lo < 0 THEN <<>>
             ELSE <<16 * hi + lo>> \o BufferFromHex(SubSeq(s, 3, Len(s)))

Base64UrlAlphabet ==
    "ABCDEFGHIJKLMNOPQRSTUVWXYZabcdefghijklmnopqrstuvwxyz0123456789-_"

B64(n) == CharAt(Base64UrlAlphabet, n + 1)

\* base64url without padding of a byte sequence.
RECURSIVE Base64UrlBytes(_)
Base64UrlBytes(b) ==
    IF Len(b) = 0 THEN ""
    ELSE IF Len(b) = 1 THEN
        B64(b[1] \div 4) \o B64((b[1] % 4) * 16)
    ELSE IF Len(b) = 2 THEN
        B64(b[1] \div 4) \o B64((b[1] % 4) * 16 + b[2] \div 16)
            \o B64((b[2] % 16) * 4)
    ELSE
        B64(b[1] \div 4) \o B64((b[1] % 4) * 16 + b[2] \div 16)
            \o B64((b[2] % 16) * 4 + b[3] \div 64) \o B64(b[3] % 64)
            \o Base64UrlBytes(SubSeq(b, 4, Len(b)))

\* base64url.encode(s) of a string.
base64urlEncode(s) == Base64UrlBytes(Utf8(s))

---------------------------------------------------------------------------
(* Ordered objects (JWKs).                                                 *)

HasKey(obj, k) == \E i \in 1..Len(obj) : obj[i][1] = k

Get(obj, k) == obj[CHOOSE i \in 1..Len(obj) : obj[i][1] = k][2]

\* obj[k] = v: an existing property keeps its place, a new one goes last.
Put(obj, k, v) ==
    IF HasKey(obj, k)
    THEN [i \in 1..Len(obj) |-> IF obj[i][1] = k THEN <<k, v>> ELSE obj[i]]
    ELSE Append(obj, <<k, v>>)

\* { ...target, ...source }: the source's properties are assigned in order
\* onto the target, overwriting properties of the same name.
RECURSIVE Spread(_, _)
Spread(target, source) ==
    IF source = <<>> THEN target
    ELSE Spread(Put(target, source[1][1], source[1][2]), Tail(source))

RECURSIVE JsonMembers(_)
JsonMembers(obj) ==
    IF obj = <<>> THEN ""
    ELSE "\"" \o obj[1][1] \o "\":\"" \o obj[1][2] \o "\""
            \o (IF Len(obj) > 1 THEN "," ELSE "") \o JsonMembers(Tail(obj))

\* JSON.stringify of an object whose values are strings without characters
\* that need escaping.
JSONstringify(obj) == "{" \o JsonMembers(obj) \o "}"

\* A value is truthy unless it is undefined or the empty string.
Truthy(opt) == opt # <<>> /\ opt[1] # ""

---------------------------------------------------------------------------
(* Errors and results.                                                     *)

Err(name, message) == [name |-> name, message |-> message]

NoError == Err("", "")

\* A property access or a call on undefined, or a call of a non-function.
TypeError(what) == Err("TypeError", what)

\* A rejection that comes from a handler module itself.
HandlerError == Err("HandlerError", "rejected by the handler")

Returned(v) == [status |-> "returned", value |-> v, error |-> NoError]

Threw(e) == [status |-> "threw", value |-> <<>>, error |-> e]

NoResult == [status |-> "none", value |-> <<>>, error |-> NoError]

---------------------------------------------------------------------------
(* The registry.                                                           *)

typeMap ==
    [ ed25519   |-> "ed25519",
      x25519    |-> "x25519",
      secp256k1 |-> "secp256k1",
      bls12381  |-> "bls12381",
      secp256r1 |-> "web",
      secp384r1 |-> "web",
      secp521r1 |-> "web" ]

startsWithMap_wrongWeb ==
    ("did:key:z6Mk" :> "ed25519") @@ ("did:key:z6LS" :> "x25519")
        @@ ("did:key:zQ3s" :> "secp256k1")
        @@ ("did:key:z5Tc" :> "bls12381") @@ ("did:key:zUC7" :> "bls12381")
        @@ ("did:key:zDna" :> "web") @@ ("did:key:z82L" :> "secp256k1")
        @@ ("did:key:z2J9" :> "web")

startsWithMap ==
    ("did:key:z6Mk" :> "ed25519") @@ ("did:key:z6LS" :> "x25519")
        @@ ("did:key:zQ3s" :> "secp256k1")
        @@ ("did:key:z5Tc" :> "bls12381") @@ ("did:key:zUC7" :> "bls12381")
        @@ ("did:key:zDna" :> "web") @@ ("did:key:z82L" :> "web")
        @@ ("did:key:z2J9" :> "web")

\* The value of a failed property lookup.
Undefined == "undefined"

\* A member of Object.prototype: a value that is truthy but is no handler
\* module, so that it has neither a generate nor a resolve method.
Inherited == "Object.prototype member"

\* typeMap and startsWithMap are object literals: a lookup by a name that
\* is not an own property goes on to Object.prototype.
ObjectPrototypeKeys ==
    { "constructor", "__proto__", "hasOwnProperty", "isPrototypeOf",
      "propertyIsEnumerable", "toLocaleString", "toString", "valueOf",
      "__defineGetter__", "__defineSetter__", "__lookupGetter__",
      "__lookupSetter__" }

\* (map as any)[key]
PropGet(map, key) ==
    IF key \in DOMAIN map THEN map[key]
    ELSE IF key \in ObjectPrototypeKeys THEN Inherited
    ELSE Undefined

---------------------------------------------------------------------------
(* The dispatcher.                                                         *)

Range(seq) == {seq[i] : i \in 1..Len(seq)}

noSupportForSeed_short == <<"secp256r1", "secp521r1">>

noSupportForSeed == <<"secp256r1", "secp384r1", "secp521r1">>

\* Generation options: the properties a handler reads.  secureRandom, when
\* present, is the closure built by generate2 or by the caller; it is
\* represented by the seed it captures.
Options(secureRandom, kty, crvOrSize) ==
    [secureRandom |-> secureRandom, kty |-> kty, crvOrSize |-> crvOrSize]

\* () => Buffer.from(options.seed, 'hex'), seed being <<>> when options has
\* no seed.
SecureRandom(seed) == <<[seed |-> seed]>>

\* The value of getOptionsForType when it throws.
NoOptionsFor(type) == [throws |-> Err("Error", "No options for type: " \o type)]

getOptionsForType_allP256(type) ==
    IF type \in {"secp256r1", "secp384r1", "secp521r1"}
    THEN Options(<<>>, <<"EC">>, <<"P-256">>)
    ELSE NoOptionsFor(type)

getOptionsForType(type) ==
    IF type = "secp256r1" THEN Options(<<>>, <<"EC">>, <<"P-256">>)
    ELSE IF type = "secp384r1" THEN Options(<<>>, <<"EC">>, <<"P-384">>)
    ELSE IF type = "secp521r1" THEN Options(<<>>, <<"EC">>, <<"P-521">>)
    ELSE NoOptionsFor(type)

NoCall(e) == [error |-> e, call |-> <<>>]

GenerateCall(h, generateOptions, resolutionOptions) ==
    [h |-> h, m |-> "generate", go |-> generateOptions, ro |-> resolutionOptions]

ResolveCall(h, did, resolutionOptions) ==
    [h |-> h, m |-> "resolve", did |-> did, ro |-> resolutionOptions]

\* generate, up to the call of the handler's generate: the error thrown
\* before any call, or the one call made.
generate(type, generateOptions, resolutionOptions) ==
    IF PropGet(typeMap, type) = Undefined
    THEN NoCall(Err("Error", "did-key.js does not support: " \o type))
    ELSE LET correctOptions ==
                 IF type \in Range(noSupportForSeed)
                 THEN getOptionsForType(type)
                 ELSE generateOptions
         IN  IF "throws" \in DOMAIN correctOptions
             THEN NoCall(correctOptions.throws)
             ELSE IF PropGet(typeMap, type) = Inherited
             THEN NoCall(TypeError("typeMap[type].generate is not a function"))
             ELSE [error |-> NoError,
                   call |-> <<GenerateCall(typeMap[type], correctOptions,
                                           resolutionOptions)>>]

\* resolve, up to the call of the handler's resolve.
resolve(did, resolutionOptions) ==
    LET startsWith == substring0(did, 12)
    IN  IF PropGet(startsWithMap, startsWith) = Undefined
        THEN NoCall(Err("Error", "did-key.js does not support: " \o startsWith \o "..."))
        ELSE IF PropGet(startsWithMap, startsWith) = Inherited
        THEN NoCall(TypeError("startsWithMap[startsWith].resolve is not a function"))
        ELSE [error |-> NoError,
              call |-> <<ResolveCall(startsWithMap[startsWith], did, resolutionOptions)>>]

---------------------------------------------------------------------------
(* The handler modules (the @transmute did-key packages), as far as the    *)
(* dispatch layer depends on them.  What a handler returns is its own     *)
(* business: it is chosen among the results below, or the handler rejects. *)

JSON == "application/did+json"
JSONLD == "application/did+ld+json"

\* The did:key prefix of the keys a handler generates.
HandlerDidPrefix(h, go) ==
    IF h = "ed25519" THEN <<"did:key:z6Mk">>
    ELSE IF h = "x25519" THEN <<"did:key:z6LS">>
    ELSE IF h = "secp256k1" THEN <<"did:key:zQ3s">>
    ELSE IF h = "bls12381" THEN <<"did:key:z5Tc">>
    ELSE IF go.crvOrSize = <<"P-256">> THEN <<"did:key:zDna">>
    ELSE IF go.crvOrSize = <<"P-384">> THEN <<"did:key:z82L">>
    ELSE IF go.crvOrSize = <<"P-521">> THEN <<"did:key:z2J9">>
    ELSE <<>>

\* The kty and crv of the JWKs of a did:key identifier.
CurveOfDid(did) ==
    LET p == substring0(did, 12)
    IN  IF p = "did:key:z6Mk" THEN <<"OKP", "Ed25519">>
        ELSE IF p = "did:key:z6LS" THEN <<"OKP", "X25519">>
        ELSE IF p = "did:key:zQ3s" THEN <<"EC", "secp256k1">>
        ELSE IF p = "did:key:z5Tc" THEN <<"EC", "BLS12381_G1">>
        ELSE IF p = "did:key:zUC7" THEN <<"EC", "BLS12381_G2">>
        ELSE IF p = "did:key:zDna" THEN <<"EC", "P-256">>
        ELSE IF p = "did:key:z82L" THEN <<"EC", "P-384">>
        ELSE <<"EC", "P-521">>

Jwk(kty, crv, x) == << <<"kty", kty>>, <<"crv", crv>>, <<"x", x>> >>

\* A verification method of a document, in one of the two representations.
VerificationMethod(did, fragment, kty, crv, form) ==
    IF form = "jwk"
    THEN [id |-> did \o fragment, type |-> "JsonWebKey2020", controller |-> did,
          publicKeyJwk |-> Jwk(kty, crv, fragment)]
    ELSE [id |-> did \o fragment, type |-> crv \o "VerificationKey2018",
          controller |-> did, publicKeyBase58 |-> fragment]

\* A key pair as a handler returns it: scoped to the handler's did:key
\* identifier, in JWK form or in Linked-Data form.
HandlerKey(did, fragment, kty, crv, form, embeddedKid) ==
    IF form = "jwk"
    THEN [id |-> did \o fragment, type |-> "JsonWebKey2020", controller |-> did,
          publicKeyJwk |-> Jwk(kty, crv, fragment)
                              \o (IF embeddedKid THEN << <<"kid", "pk1">> >> ELSE <<>>),
          privateKeyJwk |-> Jwk(kty, crv, fragment) \o << <<"d", fragment>> >>]
    ELSE [id |-> did \o fragment, type |-> crv \o "VerificationKey2018",
          controller |-> did, publicKeyBase58 |-> fragment,
          privateKeyBase58 |-> fragment]

\* The bytes a handler's own randomness may produce.
Entropy == {<<e>> : e \in 1..MaxEntropy}

\* The representations a handler may answer in.
Forms(ro) ==
    IF ro.accept = <<JSON>> THEN {"jwk"}
    ELSE IF ro.accept = <<JSONLD>> THEN {"ld"}
    ELSE {"jwk", "ld"}

\* A generation from key bytes: the document and 0, 1 or 2 keys (the
\* second one a derived key-agreement key).
Generation(prefix, bytes, form, embeddedKid, n) ==
    LET did == prefix \o Base64UrlBytes(bytes)
        c == CurveOfDid(did)
        k1 == HandlerKey(did, "#" \o Base64UrlBytes(bytes), c[1], c[2], form, embeddedKid)
        k2 == HandlerKey(did, "#agreement", "OKP", "X25519", form, embeddedKid)
    IN  [didDocument |->
            [id |-> did,
             verificationMethod |->
                << VerificationMethod(did, "#" \o Base64UrlBytes(bytes), c[1], c[2], form) >>],
         keys |-> IF n = 0 THEN <<>> ELSE IF n = 1 THEN <<k1>> ELSE <<k1, k2>>]

\* What is left to the handler in one call of its generate: whether it
\* rejects, the bytes its own randomness yields, the representation it
\* answers in when none is requested, whether its public JWK embeds a kid,
\* and how many keys it returns.
HandlerChoices ==
    [rejects : {FALSE}, entropy : Entropy, form : {"jwk", "ld"},
     embeddedKid : BOOLEAN, n : 0..2]
        \cup [rejects : {TRUE}, entropy : {<<1>>}, form : {"jwk"},
              embeddedKid : {FALSE}, n : {0}]

\* What handler.generate(generateOptions, resolutionOptions) settles with.
\* A secureRandom in the options is the handler's source of key bytes;
\* without one the handler draws its own.
HandlerGenerateWith(c, ch) ==
    LET prefix == HandlerDidPrefix(c.h, c.go)
        closure == c.go.secureRandom
        form == IF ch.form \in Forms(c.ro) THEN ch.form
                ELSE CHOOSE f \in Forms(c.ro) : TRUE
    IN  IF ch.rejects \/ prefix = <<>> THEN Threw(HandlerError)
        ELSE IF closure = <<>>
        THEN Returned(Generation(prefix[1], ch.entropy, form, ch.embeddedKid, ch.n))
        ELSE IF closure[1].seed = <<>>
        THEN Threw(TypeError("Buffer.from(undefined, 'hex')"))
        ELSE Returned(Generation(prefix[1], BufferFromHex(closure[1].seed[1]),
                                 form, ch.embeddedKid, ch.n))

HandlerGenerate(c) == {HandlerGenerateWith(c, ch) : ch \in HandlerChoices}

\* The documents handler.resolve(did, resolutionOptions) may resolve to:
\* one verification method (#a) or two (#a and the key-agreement key #b),
\* in the requested representation; a handler asked for application/did+json
\* may still answer with Linked-Data verification methods.
Documents(did, ro) ==
    LET c == CurveOfDid(did)
        forms == IF ro.accept = <<JSONLD>> THEN {"ld"} ELSE {"jwk", "ld"}
    IN  { [id |-> did,
           verificationMethod |->
              IF two
              THEN << VerificationMethod(did, "#a", c[1], c[2], f),
                      VerificationMethod(did, "#b", "OKP", "X25519", f) >>
              ELSE << VerificationMethod(did, "#a", c[1], c[2], f) >>] :
          f \in forms, two \in BOOLEAN }

HandlerResolve(c) ==
    {Threw(HandlerError)}
        \cup {Returned([didDocument |-> d]) : d \in Documents(c.did, c.ro)}

---------------------------------------------------------------------------
(* The document synthesizer.                                               *)

\* { ...a, ...b } of two plain objects.
ObjectSpread(a, b) ==
    [k \in DOMAIN a \cup DOMAIN b |-> IF k \in DOMAIN b THEN b[k] ELSE a[k]]

\* JSON.parse(JSON.stringify(doc)): a document made of strings, arrays and
\* objects only, with no undefined property, is copied as it is.
JSONcopy(doc) == doc

\* options.kid || publicKeyJwk.kid || keys[0].controller.split(':').pop()
\* where publicKeyJwk is <<>> when the key has no such property.
Kid(options, publicKeyJwk, controller) ==
    IF Truthy(options.kid) THEN <<options.kid[1]>>
    ELSE IF publicKeyJwk = <<>> THEN <<>>
    ELSE IF HasKey(publicKeyJwk[1], "kid") /\ Get(publicKeyJwk[1], "kid") # ""
    THEN <<Get(publicKeyJwk[1], "kid")>>
    ELSE <<splitPop(controller)>>

\* The part of generate2 that follows the await of generate.
Synthesize(options, keys) ==
    IF keys = <<>>
    THEN Threw(TypeError("Cannot destructure property 'publicKeyJwk' of undefined"))
    ELSE
    LET key == keys[1]
        publicKeyJwk == IF "publicKeyJwk" \in DOMAIN key
                        THEN <<key.publicKeyJwk>> ELSE <<>>
        kid == Kid(options, publicKeyJwk, keys[1].controller)
    IN  IF kid = <<>>
        THEN Threw(TypeError("Cannot read properties of undefined (reading 'kid')"))
        ELSE
        LET jwk == Spread(<< <<"kid", kid[1]>> >>,
                          IF publicKeyJwk = <<>> THEN <<>> ELSE publicKeyJwk[1])
            did == "did:jwk:" \o base64urlEncode(JSONstringify(jwk))
            didUrl == did
            newDoc == [id |-> did,
                       verificationMethod |->
                           << [id |-> didUrl, type |-> "JsonWebKey2020",
                               controller |-> did, publicKeyJwk |-> jwk] >>,
                       authentication |-> <<didUrl>>,
                       capabilityInvocation |-> <<didUrl>>,
                       capabilityDelegation |-> <<didUrl>>,
                       keyAgreement |-> <<didUrl>>]
            newKeys == << ObjectSpread([id |-> didUrl, controller |-> did], key) >>
        IN  Returned([keys |-> newKeys, didDocument |-> JSONcopy(newDoc)])

\* generate2(options), the handler deciding ch: the call made, what the
\* handler settled with, and the result.
generate2(options, ch) ==
    LET d == generate(options.type,
                      Options(SecureRandom(options.seed), <<>>, <<>>),
                      options)
    IN  IF d.call = <<>>
        THEN [calls |-> <<>>, generated |-> <<>>, out |-> Threw(d.error)]
        ELSE LET r == HandlerGenerateWith(d.call[1], ch)
             IN  [calls |-> d.call,
                  generated |-> <<r>>,
                  out |-> IF r.status = "threw" THEN r
                          ELSE Synthesize(options, r.value.keys)]

---------------------------------------------------------------------------
(* The curve classifier.                                                   *)

\* k.publicKeyJwk.<name>, undefined when the JWK has no such member.
Member(jwk, name) == IF HasKey(jwk, name) THEN Get(jwk, name) ELSE Undefined

getKeyPairClassFromKey_strict(k) ==
    IF k = <<>>
    THEN Threw(TypeError("Cannot read properties of undefined (reading 'type')"))
    ELSE IF k[1].type = "JsonWebKey2020"
    THEN IF "publicKeyJwk" \notin DOMAIN k[1]
         THEN Threw(TypeError("Cannot read properties of undefined (reading 'kty')"))
         ELSE LET kty == Member(k[1].publicKeyJwk, "kty")
                  crv == Member(k[1].publicKeyJwk, "crv")
              IN  IF kty = "EC" /\ crv = "secp256k1"
                  THEN Returned("secp256k1.Secp256k1KeyPair")
                  ELSE IF kty = "OKP" /\ crv = "Ed25519"
                  THEN Returned("ed25519.Ed25519KeyPair")
                  ELSE IF kty = "OKP" /\ crv = "X25519"
                  THEN Returned("x25519.X25519KeyPair")
                  ELSE IF kty = "EC" /\ crv = "BLS12381_G1"
                  THEN Returned("bls12381.Bls12381G1KeyPair")
                  ELSE IF kty = "EC" /\ crv = "BLS12381_G2"
                  THEN Returned("bls12381.Bls12381G2KeyPair")
                  ELSE IF kty = "EC" /\ crv \in {"P-256", "P-384", "P-521"}
                  THEN Returned("web.WebCryptoKey")
                  ELSE Threw(Err("Error", "unsupported curve"))
    ELSE Threw(Err("Error", "getKeyPairClassFromKey only supports JsonWebKey2020"))

\* getKeyPairClassFromKey(k), k being <<>> for undefined: the key-pair
\* class returned, or the error thrown.
getKeyPairClassFromKey(k) ==
    IF k = <<>>
    THEN Threw(TypeError("Cannot read properties of undefined (reading 'type')"))
    ELSE IF k[1].type = "JsonWebKey2020"
    THEN IF "publicKeyJwk" \notin DOMAIN k[1]
         THEN Threw(TypeError("Cannot read properties of undefined (reading 'kty')"))
         ELSE LET kty == Member(k[1].publicKeyJwk, "kty")
                  crv == Member(k[1].publicKeyJwk, "crv")
              IN  IF kty = "EC" /\ crv = "secp256k1"
                  THEN Returned("secp256k1.Secp256k1KeyPair")
                  ELSE IF kty = "OKP" /\ crv = "Ed25519"
                  THEN Returned("ed25519.Ed25519KeyPair")
                  ELSE IF kty = "OKP" /\ crv = "X25519"
                  THEN Returned("x25519.X25519KeyPair")
                  ELSE IF kty = "EC" /\ crv = "BLS12381_G1"
                  THEN Returned("bls12381.Bls12381G1KeyPair")
                  ELSE IF kty = "EC" /\ crv = "BLS12381_G2"
                  THEN Returned("bls12381.Bls12381G2KeyPair")
                  ELSE Returned("web.WebCryptoKey")
    ELSE Threw(Err("Error", "getKeyPairClassFromKey only supports JsonWebKey2020"))

---------------------------------------------------------------------------
(* The cross-representation converter.                                     *)

\* Array.prototype.find((v) => v.id === id): the first match, <<>> if none.
find(verificationMethod, id) ==
    IF \E i \in 1..Len(verificationMethod) : verificationMethod[i].id = id
    THEN <<verificationMethod[CHOOSE i \in 1..Len(verificationMethod) :
                /\ verificationMethod[i].id = id
                /\ \A j \in 1..(i - 1) : verificationMethod[j].id # id]>>
    ELSE <<>>

FromCall(KeyPair, k) == [h |-> KeyPair, m |-> "from", key |-> k]

\* The argument of k1.export.
ExportOptions(vm) == [type |-> vm.type, privateKey |-> TRUE]

ExportCall(KeyPair, k, options) ==
    [h |-> KeyPair, m |-> "export", key |-> k, options |-> options]

\* What k1.export(options) resolves to, k1 being KeyPair.from(k).
Exported(KeyPair, k, options) ==
    [id |-> k.id, controller |-> k.controller, type |-> options.type,
     from |-> KeyPair, private |-> options.privateKey]

\* The async callback of keys.map for key k, up to its first await: both
\* lookups, the classification and the call of KeyPair.from.
StartTask(k, old, new) ==
    LET vm == find(new.didDocument.verificationMethod, k.id)
        vmAsJson == find(old.didDocument.verificationMethod, k.id)
        KeyPair == getKeyPairClassFromKey(vmAsJson)
    IN  [state |-> IF KeyPair.status = "threw" THEN "rejected" ELSE "from",
         vm |-> vm, vmAsJson |-> vmAsJson,
         KeyPair |-> IF KeyPair.status = "threw" THEN "" ELSE KeyPair.value,
         error |-> KeyPair.error, k2 |-> <<>>]

RECURSIVE FromCalls(_, _)
FromCalls(keys, ts) ==
    IF keys = <<>> THEN <<>>
    ELSE (IF ts[1].state = "from" THEN <<FromCall(ts[1].KeyPair, keys[1])>> ELSE <<>>)
            \o FromCalls(Tail(keys), Tail(ts))

Rejected(ts) == {i \in 1..Len(ts) : ts[i].state = "rejected"}

ConvertResult_oldDocument(ts, new) ==
    [keys |-> [i \in 1..Len(ts) |-> ts[i].k2[1]],
     didDocument |-> oldRepresentation[1].didDocument]

\* The value convert returns once every callback has fulfilled.
ConvertResult(ts, new) ==
    [keys |-> [i \in 1..Len(ts) |-> ts[i].k2[1]], didDocument |-> new.didDocument]

RECURSIVE Fulfilled(_)
Fulfilled(ts) ==
    IF ts = <<>> THEN <<>>
    ELSE (IF ts[1].state = "fulfilled" THEN ts[1].k2 ELSE <<>>) \o Fulfilled(Tail(ts))

Settle_allSettled(current, ts, new) ==
    IF current.status # "none" THEN current
    ELSE IF \A i \in 1..Len(ts) : ts[i].state \in {"fulfilled", "rejected"}
    THEN Returned([keys |-> Fulfilled(ts), didDocument |-> new.didDocument])
    ELSE current

\* Promise.all over the callbacks, then the return of convert: rejected by
\* the first callback that rejects, fulfilled when all have fulfilled.
Settle(current, ts, new) ==
    IF current.status # "none" THEN current
    ELSE IF Rejected(ts) # {}
    THEN Threw(ts[CHOOSE i \in Rejected(ts) : \A j \in Rejected(ts) : i <= j].error)
    ELSE IF \A i \in 1..Len(ts) : ts[i].state = "fulfilled"
    THEN Returned(ConvertResult(ts, new))
    ELSE current

---------------------------------------------------------------------------
(* Inputs.                                                                 *)

TypeInputs ==
    DOMAIN typeMap \cup {"bls12381-g1", "rsa", "", "constructor", "toString"}

Seeds == {"00", "ff01"}

GenerateOptionsInputs ==
    { Options(<<>>, <<>>, <<>>),
      Options(<<>>, <<"EC">>, <<"P-521">>),
      Options(<<>>, <<"OKP">>, <<"P-256">>) }
        \cup {Options(SecureRandom(<<x>>), <<>>, <<>>) : x \in Seeds}

ResolutionOptionsInputs == {[accept |-> <<JSON>>], [accept |-> <<JSONLD>>]}

DidInputs ==
    {p \o "A" : p \in DOMAIN startsWithMap}
        \cup { "did:key:zZZZ9", "did:key:z6M", "did:jwk:eyJraWQiOiJrMSJ9",
               "constructor", "__proto__", "" }

KidInputs == {<<>>, <<"">>, <<"k1">>}

\* The options of generate2.
Generate2OptionsInputs ==
    [type : DOMAIN typeMap \cup {"rsa", "constructor"}, seed : {<<>>} \cup {<<x>> : x \in Seeds}, kid : KidInputs,
     accept : {<<>>, <<JSON>>, <<JSONLD>>}]

\* Verification methods given to the classifier.
ClassifierInputs ==
    { [id |-> "did:example:1#a", type |-> t, controller |-> "did:example:1",
       publicKeyJwk |-> j] :
        t \in {"JsonWebKey2020", "JsonWebKey2021", "Ed25519VerificationKey2018"},
        j \in {Jwk(kty, crv, "x") :
                    kty \in {"EC", "OKP", "RSA"},
                    crv \in {"secp256k1", "Ed25519", "X25519", "BLS12381_G1",
                             "BLS12381_G2", "P-256", "P-384", "P-521", "Curve448"}}
               \cup { << <<"kty", "RSA">>, <<"n", "x">> >>, << <<"crv", "Ed25519">> >> } }
        \cup { [id |-> "did:example:1#a", type |-> "Ed25519VerificationKey2018",
                controller |-> "did:example:1", publicKeyBase58 |-> "x"] }

\* The keys given to convert: three of one did:key identifier, the third
\* one in no resolved document, and one of an identifier that no handler
\* is registered for.
ConvertKeys ==
    { HandlerKey("did:key:z6MkA", "#a", "OKP", "Ed25519", "jwk", FALSE),
      HandlerKey("did:key:z6MkA", "#b", "OKP", "X25519", "jwk", FALSE),
      HandlerKey("did:key:z6MkA", "#c", "OKP", "X25519", "ld", FALSE),
      HandlerKey("did:key:zZZZ9", "#a", "OKP", "Ed25519", "jwk", FALSE) }

\* Key lists without repetition, of at most MaxKeys keys.
ConvertKeyLists ==
    UNION { {ks \in [1..n -> ConvertKeys] :
                \A i, j \in 1..n : ks[i] = ks[j] => i = j} : n \in 0..MaxKeys }

---------------------------------------------------------------------------
(* The requests.                                                           *)

Init ==
    /\ pc = "idle"
    /\ req = [op |-> "none"]
    /\ calls = <<>>
    /\ out = NoResult
    /\ oldRepresentation = <<>>
    /\ newRepresentation = <<>>
    /\ tasks = <<>>
    /\ generated = <<>>
    /\ twin = <<>>

convertVars == <<oldRepresentation, newRepresentation, tasks>>

generate2Vars == <<generated, twin>>

\* generate(type, generateOptions, resolutionOptions)
Generate(type, generateOptions, resolutionOptions) ==
    /\ pc = "idle"
    /\ pc' = "returned"
    /\ req' = [op |-> "generate", type |-> type, generateOptions |-> generateOptions,
               resolutionOptions |-> resolutionOptions]
    /\ LET d == generate(type, generateOptions, resolutionOptions)
       IN  IF d.call = <<>>
           THEN calls' = calls /\ out' = Threw(d.error)
           ELSE /\ calls' = calls \o d.call
                /\ out' \in HandlerGenerate(d.call[1])
    /\ UNCHANGED <<convertVars, generate2Vars>>

\* resolve(did, resolutionOptions)
Resolve(did, resolutionOptions) ==
    /\ pc = "idle"
    /\ pc' = "returned"
    /\ req' = [op |-> "resolve", did |-> did, resolutionOptions |-> resolutionOptions,
               generated |-> <<>>]
    /\ LET d == resolve(did, resolutionOptions)
       IN  IF d.call = <<>>
           THEN calls' = calls /\ out' = Threw(d.error)
           ELSE /\ calls' = calls \o d.call
                /\ out' \in HandlerResolve(d.call[1])
    /\ UNCHANGED <<convertVars, generate2Vars>>

\* resolve of the identifier that a generate has just returned.
ResolveGenerated(resolutionOptions) ==
    /\ pc = "returned"
    /\ req.op = "generate"
    /\ out.status = "returned"
    /\ req' = [op |-> "resolve", did |-> out.value.didDocument.id,
               resolutionOptions |-> resolutionOptions,
               generated |-> <<req.type>>]
    /\ LET d == resolve(out.value.didDocument.id, resolutionOptions)
       IN  IF d.call = <<>>
           THEN calls' = calls /\ out' = Threw(d.error)
           ELSE /\ calls' = calls \o d.call
                /\ out' \in HandlerResolve(d.call[1])
    /\ UNCHANGED <<pc, convertVars, generate2Vars>>

\* The caller takes the result; the next request starts afresh.
Return ==
    /\ pc = "returned"
    /\ pc' = "idle"
    /\ req' = [op |-> "none"]
    /\ calls' = <<>>
    /\ out' = NoResult
    /\ oldRepresentation' = <<>>
    /\ newRepresentation' = <<>>
    /\ tasks' = <<>>
    /\ generated' = <<>>
    /\ twin' = <<>>

\* generate2(options); the twin is the same request with seed2 for seed.
Generate2(options, seed2) ==
    /\ pc = "idle"
    /\ pc' = "returned"
    /\ req' = [op |-> "generate2", options |-> options]
    /\ \E ch \in HandlerChoices :
        LET g == generate2(options, ch)
        IN  /\ calls' = calls \o g.calls
            /\ generated' = g.generated
            /\ out' = g.out
            /\ twin' = <<generate2([options EXCEPT !.seed = seed2], ch)>>
    /\ UNCHANGED convertVars

\* getKeyPairClassFromKey(k)
Classify(k) ==
    /\ pc = "idle"
    /\ pc' = "returned"
    /\ req' = [op |-> "classify", k |-> k]
    /\ out' = getKeyPairClassFromKey(<<k>>)
    /\ UNCHANGED <<calls, convertVars, generate2Vars>>

\* convert(keys, resolutionOptions), up to its first await: the call of
\* resolve with accept = application/did+json.
ConvertStart(keys, resolutionOptions) ==
    /\ pc = "idle"
    /\ req' = [op |-> "convert", keys |-> keys, resolutionOptions |-> resolutionOptions]
    /\ IF keys = <<>>
       THEN /\ out' = Threw(TypeError("Cannot read properties of undefined (reading 'controller')"))
            /\ pc' = "returned"
            /\ calls' = calls
       ELSE LET d == resolve(keys[1].controller, [accept |-> <<JSON>>])
            IN  IF d.call = <<>>
                THEN out' = Threw(d.error) /\ pc' = "returned" /\ calls' = calls
                ELSE out' = out /\ pc' = "resolveOld" /\ calls' = calls \o d.call
    /\ UNCHANGED <<convertVars, generate2Vars>>

ConvertOldResolved_mapUnawaited ==
    /\ pc = "resolveOld"
    /\ \E r \in HandlerResolve(calls[Len(calls)]) :
        IF r.status = "threw"
        THEN /\ out' = r /\ pc' = "returned"
             /\ UNCHANGED <<calls, oldRepresentation, tasks>>
        ELSE LET d == resolve(req.keys[1].controller, req.resolutionOptions)
                 ts == [i \in 1..Len(req.keys) |->
                            StartTask(req.keys[i], r.value, r.value)]
             IN  /\ oldRepresentation' = <<r.value>>
                 /\ tasks' = ts
                 /\ out' = out /\ pc' = "resolveNew"
                 /\ calls' = calls \o d.call \o FromCalls(req.keys, ts)
    /\ UNCHANGED <<req, newRepresentation, generate2Vars>>

\* The first resolution settles; convert goes on to the call of resolve
\* with the caller's resolutionOptions.
ConvertOldResolved ==
    /\ pc = "resolveOld"
    /\ \E r \in HandlerResolve(calls[Len(calls)]) :
        IF r.status = "threw"
        THEN /\ out' = r /\ pc' = "returned"
             /\ UNCHANGED <<calls, oldRepresentation>>
        ELSE LET d == resolve(req.keys[1].controller, req.resolutionOptions)
             IN  /\ oldRepresentation' = <<r.value>>
                 /\ IF d.call = <<>>
                    THEN out' = Threw(d.error) /\ pc' = "returned" /\ calls' = calls
                    ELSE out' = out /\ pc' = "resolveNew" /\ calls' = calls \o d.call
    /\ UNCHANGED <<req, newRepresentation, tasks, generate2Vars>>

\* The second resolution settles; keys.map starts the callback of every
\* key, in order, each running up to its await of KeyPair.from.
ConvertNewResolved ==
    /\ pc = "resolveNew"
    /\ \E r \in HandlerResolve(calls[Len(calls)]) :
        IF r.status = "threw"
        THEN /\ out' = r /\ pc' = "returned"
             /\ UNCHANGED <<calls, newRepresentation, tasks>>
        ELSE LET ts == [i \in 1..Len(req.keys) |->
                            StartTask(req.keys[i], oldRepresentation[1], r.value)]
             IN  /\ newRepresentation' = <<r.value>>
                 /\ tasks' = ts
                 /\ calls' = calls \o FromCalls(req.keys, ts)
                 /\ out' = Settle(out, ts, r.value)
                 /\ pc' = IF Settle(out, ts, r.value).status = "none"
                          THEN "awaiting" ELSE "returned"
    /\ UNCHANGED <<req, oldRepresentation, generate2Vars>>

\* KeyPair.from(k) of key i settles; on success the callback goes on to
\* read vm.type and to call k1.export.
FromSettles(i) ==
    /\ req.op = "convert"
    /\ i \in 1..Len(tasks)
    /\ tasks[i].state = "from"
    /\ \E ok \in BOOLEAN :
        LET t == tasks[i]
            after ==
                IF ~ok THEN [t EXCEPT !.state = "rejected", !.error = HandlerError]
                ELSE IF t.vm = <<>>
                THEN [t EXCEPT !.state = "rejected",
                               !.error = TypeError("Cannot read properties of undefined (reading 'type')")]
                ELSE [t EXCEPT !.state = "export"]
            ts == [tasks EXCEPT ![i] = after]
        IN  /\ tasks' = ts
            /\ calls' = IF after.state = "export"
                        THEN Append(calls, ExportCall(t.KeyPair, req.keys[i],
                                                      ExportOptions(t.vm[1])))
                        ELSE calls
            /\ out' = Settle(out, ts, newRepresentation[1])
            /\ pc' = IF Settle(out, ts, newRepresentation[1]).status = "none"
                     THEN "awaiting" ELSE "returned"
    /\ UNCHANGED <<req, oldRepresentation, newRepresentation, generate2Vars>>

\* k1.export(...) of key i settles; the callback returns k2.
ExportSettles(i) ==
    /\ req.op = "convert"
    /\ i \in 1..Len(tasks)
    /\ tasks[i].state = "export"
    /\ \E ok \in BOOLEAN :
        LET t == tasks[i]
            after ==
                IF ~ok THEN [t EXCEPT !.state = "rejected", !.error = HandlerError]
                ELSE [t EXCEPT !.state = "fulfilled",
                               !.k2 = <<Exported(t.KeyPair, req.keys[i],
                                                 ExportOptions(t.vm[1]))>>]
            ts == [tasks EXCEPT ![i] = after]
        IN  /\ tasks' = ts
            /\ out' = Settle(out, ts, newRepresentation[1])
            /\ pc' = IF Settle(out, ts, newRepresentation[1]).status = "none"
                     THEN "awaiting" ELSE "returned"
    /\ UNCHANGED <<req, calls, oldRepresentation, newRepresentation, generate2Vars>>

Next ==
    \/ \E t \in TypeInputs, go \in GenerateOptionsInputs, ro \in ResolutionOptionsInputs :
            Generate(t, go, ro)
    \/ \E d \in DidInputs, ro \in ResolutionOptionsInputs : Resolve(d, ro)
    \/ \E ro \in ResolutionOptionsInputs : ResolveGenerated(ro)
    \/ \E o \in Generate2OptionsInputs, seed2 \in {<<>>} \cup {<<x>> : x \in Seeds} :
            Generate2(o, seed2)
    \/ \E k \in ClassifierInputs : Classify(k)
    \/ \E ks \in ConvertKeyLists, ro \in ResolutionOptionsInputs : ConvertStart(ks, ro)
    \/ ConvertOldResolved
    \/ ConvertNewResolved
    \/ \E i \in 1..MaxKeys : FromSettles(i)
    \/ \E i \in 1..MaxKeys : ExportSettles(i)
    \/ Return

Spec == Init /\ [][Next]_vars

---------------------------------------------------------------------------
(* Properties.                                                             *)

\* The calls made by the current request (a resolve that follows a
\* generate comes after the call of that generate).
OwnCalls ==
    IF req.op = "resolve" /\ req.generated # <<>> THEN Tail(calls) ELSE calls

NistTypes == {"secp256r1", "secp384r1", "secp521r1"}

\* C1: generate with a type tag that has no entry in typeMap throws the
\* unsupported-type error, and resolve with a did whose first 12 characters
\* have no entry in startsWithMap throws the unsupported-prefix error, no
\* handler being called in either case; with a registered key exactly one
\* call is made, to the registered handler, with did and resolutionOptions
\* as given.
C1_DispatchOnlyRegistered ==
    /\ req.op = "generate" =>
        IF req.type \in DOMAIN typeMap
        THEN /\ Len(OwnCalls) = 1
             /\ OwnCalls[1].h = typeMap[req.type]
             /\ OwnCalls[1].m = "generate"
             /\ OwnCalls[1].ro = req.resolutionOptions
        ELSE /\ OwnCalls = <<>>
             /\ out = Threw(Err("Error", "did-key.js does not support: " \o req.type))
    /\ req.op = "resolve" =>
        LET prefix == SubSeq(req.did, 1, Min(12, Len(req.did)))
        IN  IF prefix \in DOMAIN startsWithMap
            THEN /\ Len(OwnCalls) = 1
                 /\ OwnCalls[1].h = startsWithMap[prefix]
                 /\ OwnCalls[1].m = "resolve"
                 /\ OwnCalls[1].did = req.did
                 /\ OwnCalls[1].ro = req.resolutionOptions
            ELSE /\ OwnCalls = <<>>
                 /\ out = Threw(Err("Error", "did-key.js does not support: "
                                                \o prefix \o "..."))

\* C2: for secp256r1, secp384r1 and secp521r1 the handler is given exactly
\* {kty: 'EC', crvOrSize: 'P-256' / 'P-384' / 'P-521'} and nothing of the
\* caller's generateOptions; for every other registered type it is given
\* the caller's generateOptions; resolutionOptions is forwarded as given.
C2_FixedOptionsForNistCurves ==
    (req.op = "generate" /\ req.type \in DOMAIN typeMap) =>
        /\ Len(calls) = 1
        /\ calls[1].ro = req.resolutionOptions
        /\ req.type = "secp256r1" =>
             calls[1].go = [secureRandom |-> <<>>, kty |-> <<"EC">>, crvOrSize |-> <<"P-256">>]
        /\ req.type = "secp384r1" =>
             calls[1].go = [secureRandom |-> <<>>, kty |-> <<"EC">>, crvOrSize |-> <<"P-384">>]
        /\ req.type = "secp521r1" =>
             calls[1].go = [secureRandom |-> <<>>, kty |-> <<"EC">>, crvOrSize |-> <<"P-521">>]
        /\ req.type \notin NistTypes => calls[1].go = req.generateOptions

C2_Witness ==
    /\ req.op = "generate"
    /\ req.type = "secp384r1"
    /\ req.generateOptions.secureRandom # <<>>
    /\ Len(calls) = 1
    /\ calls[1].go.crvOrSize = <<"P-384">>
    /\ out.status = "returned"

\* The JWK that generate2 encoded into the did:jwk identifier.
EncodedJwk == out.value.didDocument.verificationMethod[1].publicKeyJwk

\* C3: the kid of the JWK encoded into the did:jwk identifier is
\* options.kid when supplied, else the kid of the handler's publicKeyJwk,
\* else the last colon-delimited segment of the key's controller.
C3_KidPriority ==
    (req.op = "generate2" /\ out.status = "returned") =>
        LET handlerKey == generated[1].value.keys[1]
            jwkKid == Get(EncodedJwk, "kid")
        IN  /\ out.value.didDocument.id =
                    "did:jwk:" \o base64urlEncode(JSONstringify(EncodedJwk))
            /\ IF req.options.kid # <<>> /\ req.options.kid[1] # ""
               THEN jwkKid = req.options.kid[1]
               ELSE IF HasKey(handlerKey.publicKeyJwk, "kid")
               THEN jwkKid = Get(handlerKey.publicKeyJwk, "kid")
               ELSE jwkKid = splitPop(handlerKey.controller)

\* C4: the key returned by generate2 has the id of the document's sole
\* verification method and the document's id as its controller.
C4_KeyRestamped ==
    (req.op = "generate2" /\ out.status = "returned") =>
        /\ out.value.keys[1].id = out.value.didDocument.verificationMethod[1].id
        /\ out.value.keys[1].controller = out.value.didDocument.id

\* The input keys of convert whose id is in the verificationMethod list of
\* document d.
Listed(k, d) ==
    \E i \in 1..Len(d.didDocument.verificationMethod) :
        d.didDocument.verificationMethod[i].id = k.id

Unmatched ==
    {i \in 1..Len(req.keys) :
        \/ ~Listed(req.keys[i], oldRepresentation[1])
        \/ ~Listed(req.keys[i], newRepresentation[1])}

Pending == {i \in 1..Len(tasks) : tasks[i].state \in {"from", "export"}}

\* C5: when the id of some input key is missing from either resolved
\* document, convert fails as a whole: it never returns a key list or a
\* document, and it has failed once every per-key conversion has ended.
C5_UnmatchedKeyFailsConvert ==
    (/\ req.op = "convert"
     /\ oldRepresentation # <<>>
     /\ newRepresentation # <<>>
     /\ Unmatched # {}) =>
        /\ out.status # "returned"
        /\ out.value = <<>>
        /\ Pending = {} => out.status = "threw"

C5_Witness ==
    /\ req.op = "convert"
    /\ Len(tasks) = 2
    /\ Unmatched = {2}
    /\ tasks[1].state = "fulfilled"
    /\ tasks[2].state = "rejected"
    /\ out.status = "threw"

\* C6: a successful convert returns one key per input key, in input order;
\* key i is input key i exported by the key-pair class of the old
\* document's verification method of that id, with the type of the new
\* document's verification method of that id and privateKey = true; the
\* document returned is the new resolution's.
C6_ConvertResult ==
    (req.op = "convert" /\ out.status = "returned") =>
        /\ Len(out.value.keys) = Len(req.keys)
        /\ out.value.didDocument = newRepresentation[1].didDocument
        /\ \A i \in 1..Len(req.keys) :
            LET k2 == out.value.keys[i]
                old == oldRepresentation[1].didDocument.verificationMethod
                new == newRepresentation[1].didDocument.verificationMethod
            IN  /\ k2.id = req.keys[i].id
                /\ k2.controller = req.keys[i].controller
                /\ k2.private = TRUE
                /\ \E n \in 1..Len(new) : new[n].id = req.keys[i].id /\ k2.type = new[n].type
                /\ \E o \in 1..Len(old) :
                    /\ old[o].id = req.keys[i].id
                    /\ old[o].type = "JsonWebKey2020"
                    /\ k2.from =
                        IF Get(old[o].publicKeyJwk, "crv") = "Ed25519"
                        THEN "ed25519.Ed25519KeyPair" ELSE "x25519.X25519KeyPair"

\* Position of the call of export for input key i.
ExportAt(i) ==
    CHOOSE n \in 1..Len(calls) : calls[n].m = "export" /\ calls[n].key = req.keys[i]

C6_Witness ==
    /\ req.op = "convert"
    /\ out.status = "returned"
    /\ Len(req.keys) = 2
    /\ req.resolutionOptions.accept = <<JSONLD>>
    /\ oldRepresentation[1].didDocument.verificationMethod[1].id = req.keys[2].id
    /\ ExportAt(2) < ExportAt(1)

\* C7: every handler that a type tag is registered for is registered
\* for some prefix as well, and the identifier that generate returns for
\* a registered type tag is dispatched by resolve to the handler that
\* generate dispatched to.
C7_RegistryRoundTrip ==
    /\ \A t \in DOMAIN typeMap :
            \E p \in DOMAIN startsWithMap : startsWithMap[p] = typeMap[t]
    /\ (req.op = "resolve" /\ req.generated # <<>>) =>
        /\ Len(calls) = 2
        /\ calls[1].m = "generate"
        /\ calls[1].h = typeMap[req.generated[1]]
        /\ calls[2].m = "resolve"
        /\ calls[2].did = req.did
        /\ calls[2].h = calls[1].h

C7_Witness ==
    /\ req.op = "resolve"
    /\ req.generated = <<"secp384r1">>
    /\ SubSeq(req.did, 1, 12) = "did:key:z82L"
    /\ Len(calls) = 2
    /\ calls[2].h = "web"
    /\ out.status = "returned"

PerKeyCalls == {n \in 1..Len(calls) : calls[n].m \in {"from", "export"}}

\* C8: in convert, no per-key step is performed before both resolutions
\* of keys[0].controller have completed, the application/did+json one
\* first; when either of them fails no per-key step is performed at all;
\* and the export of a key is called only after its import has completed.
C8_ResolutionsBeforePerKeySteps ==
    req.op = "convert" =>
        /\ (tasks # <<>> \/ PerKeyCalls # {}) =>
            /\ oldRepresentation # <<>>
            /\ newRepresentation # <<>>
            /\ Len(calls) >= 2
            /\ calls[1].m = "resolve" /\ calls[1].ro = [accept |-> <<JSON>>]
            /\ calls[2].m = "resolve" /\ calls[2].ro = req.resolutionOptions
            /\ calls[1].did = req.keys[1].controller
            /\ calls[2].did = req.keys[1].controller
            /\ \A n \in PerKeyCalls : n > 2
        /\ (oldRepresentation = <<>> \/ newRepresentation = <<>>) =>
            tasks = <<>> /\ PerKeyCalls = {}
        /\ \A n \in PerKeyCalls :
            calls[n].m = "export" =>
                \E i \in 1..Len(tasks) :
                    /\ req.keys[i] = calls[n].key
                    /\ tasks[i].state \in {"export", "fulfilled", "rejected"}
                    /\ \E m \in 1..(n - 1) :
                        calls[m].m = "from" /\ calls[m].key = calls[n].key

C8_Witness ==
    /\ req.op = "convert"
    /\ Len(tasks) = 2
    /\ \E n \in PerKeyCalls : calls[n].m = "export" /\ calls[n].key = req.keys[2]
    /\ tasks[1].state = "from"

\* C9: the classifier throws for every verification method whose type is
\* not JsonWebKey2020; for JsonWebKey2020 it returns the secp256k1,
\* ed25519, x25519, BLS G1 or BLS G2 key-pair class for the five pairs of
\* the table and the web-crypto class for any other (kty, crv).
C9_Classifier ==
    req.op = "classify" =>
        IF req.k.type # "JsonWebKey2020"
        THEN out.status = "threw"
        ELSE LET kty == IF HasKey(req.k.publicKeyJwk, "kty")
                        THEN Get(req.k.publicKeyJwk, "kty") ELSE "none"
                 crv == IF HasKey(req.k.publicKeyJwk, "crv")
                        THEN Get(req.k.publicKeyJwk, "crv") ELSE "none"
             IN  /\ out.status = "returned"
                 /\ out.value =
                        CASE <<kty, crv>> = <<"EC", "secp256k1">> -> "secp256k1.Secp256k1KeyPair"
                          [] <<kty, crv>> = <<"OKP", "Ed25519">> -> "ed25519.Ed25519KeyPair"
                          [] <<kty, crv>> = <<"OKP", "X25519">> -> "x25519.X25519KeyPair"
                          [] <<kty, crv>> = <<"EC", "BLS12381_G1">> -> "bls12381.Bls12381G1KeyPair"
                          [] <<kty, crv>> = <<"EC", "BLS12381_G2">> -> "bls12381.Bls12381G2KeyPair"
                          [] OTHER -> "web.WebCryptoKey"

C9_Witness ==
    /\ req.op = "classify"
    /\ req.k.type = "JsonWebKey2020"
    /\ req.k.publicKeyJwk = << <<"kty", "OKP">>, <<"crv", "Curve448">>, <<"x", "x">> >>
    /\ out = Returned("web.WebCryptoKey")

\* C10 as stated: for secp256r1, secp384r1 and secp521r1 nothing that
\* generate2 passes to the handler carries options.seed.
C10_SeedNeverReachesHandler ==
    (req.op = "generate2" /\ req.options.type \in NistTypes /\ calls # <<>>) =>
        /\ calls[1].go.secureRandom = <<>>
        /\ "seed" \in DOMAIN calls[1].ro => calls[1].ro.seed = <<>>

\* C10 as amended: for secp256r1, secp384r1 and secp521r1 the generation
\* options given to the handler are the fixed descriptor, the same
\* whatever options.seed is, and the did:jwk identifier returned is the
\* same for two requests that differ in options.seed only (the handler
\* deciding alike); for every other registered type the generation
\* options carry the secureRandom source built from options.seed.
C10_SeedNotInGenerationOptions ==
    (req.op = "generate2" /\ req.options.type \in DOMAIN typeMap) =>
        /\ Len(calls) = 1
        /\ Len(twin[1].calls) = 1
        /\ IF req.options.type \in NistTypes
           THEN /\ calls[1].go.secureRandom = <<>>
                /\ calls[1].go.kty = <<"EC">>
                /\ calls[1].go.crvOrSize \in {<<"P-256">>, <<"P-384">>, <<"P-521">>}
                /\ twin[1].calls[1].go = calls[1].go
                /\ twin[1].out.status = out.status
                /\ out.status = "returned" =>
                    twin[1].out.value.didDocument.id = out.value.didDocument.id
           ELSE /\ calls[1].go.secureRandom = <<[seed |-> req.options.seed]>>
                /\ twin[1].calls[1].go.secureRandom = <<[seed |-> twin[1].calls[1].ro.seed]>>

C10_Witness ==
    /\ req.op = "generate2"
    /\ req.options.type = "secp521r1"
    /\ req.options.seed = <<"00">>
    /\ calls[1].ro.seed = <<"00">>
    /\ twin[1].calls[1].ro.seed = <<"ff01">>
    /\ out.status = "returned"
    /\ twin[1].out.value.didDocument.id = out.value.didDocument.id

===========================================================================
